---- MODULE Spec2Model ----
(***************************************************************************)
(* Model of src/src/models/router.py: the ModelRouter object (its four     *)
(* configuration fields), the task classifier detect_task_type, the model  *)
(* selection select_model, the registry lookup _get_model_config and the   *)
(* generator chat_completion with the two provider transports.  environ is *)
(* the process environment read by get_api_key; chats holds, per generator *)
(* object, how far its body has run and what it has yielded.               *)
(*                                                                         *)
(* Text.  A Python str is modelled as a record [body, pad]: the characters *)
(* of body (a sequence of one-character strings) followed by pad copies of *)
(* the character Filler.  len, lower and the substring test `in` are       *)
(* computed on the text the record denotes.  Model identifiers, provider   *)
(* names and task types are only ever compared for equality, so they stay  *)
(* TLA+ strings.                                                           *)
(*                                                                         *)
(* Optional values.  None is the empty tuple, a present value s is <<s>>.  *)
(* A Python dict is a function on its keys (a record); a dict whose order  *)
(* the code relies on is a sequence of [key, config] items.                *)
(***************************************************************************)
EXTENDS Integers, Sequences, FiniteSets, TLC

VARIABLES default_model, providers, task_routing, auto_switch, call,
          environ, chats

vars == <<default_model, providers, task_routing, auto_switch, call,
          environ, chats>>

----------------------------------------------------------------------------
(* Bounds *)

\* A generated message body is the concatenation of at most MaxPieces pieces.
MaxPieces == 2

----------------------------------------------------------------------------
(* Text *)

Filler == " "

Min(a, b) == IF a <= b THEN a ELSE b

\* str.lower() on one character (ASCII letters; every other character of the
\* model's alphabet is caseless).
ToLower ==
    [c \in {"A","B","C","D","E","F","G","H","I","J","K","L","M",
            "N","O","P","Q","R","S","T","U","V","W","X","Y","Z"} |->
        CASE c = "A" -> "a" [] c = "B" -> "b" [] c = "C" -> "c"
          [] c = "D" -> "d" [] c = "E" -> "e" [] c = "F" -> "f"
          [] c = "G" -> "g" [] c = "H" -> "h" [] c = "I" -> "i"
          [] c = "J" -> "j" [] c = "K" -> "k" [] c = "L" -> "l"
          [] c = "M" -> "m" [] c = "N" -> "n" [] c = "O" -> "o"
          [] c = "P" -> "p" [] c = "Q" -> "q" [] c = "R" -> "r"
          [] c = "S" -> "s" [] c = "T" -> "t" [] c = "U" -> "u"
          [] c = "V" -> "v" [] c = "W" -> "w" [] c = "X" -> "x"
          [] c = "Y" -> "y" [] c = "Z" -> "z"]

LowerChar(c) == IF c \in DOMAIN ToLower THEN ToLower[c] ELSE c

\* lower() that leaves the letter case as it is
lower_case_kept(m) == m

\* message.lower()
lower(m) == [body |-> [i \in 1..Len(m.body) |-> LowerChar(m.body[i])],
             pad  |-> m.pad]

\* len(message)
len(m) == Len(m.body) + m.pad

\* message[i], 1-based
CharAt(m, i) == IF i <= Len(m.body) THEN m.body[i] ELSE Filler

\* The start positions at which needle can occur in m.  An occurrence that
\* starts inside the run of Filler characters starts with Filler, so when
\* needle does not start with Filler only positions of the body are left.
StartPositions(needle, m) ==
    IF needle[1] = Filler
    THEN 1..(len(m) - Len(needle) + 1)
    ELSE 1..Min(Len(m.body), len(m) - Len(needle) + 1)

\* needle in m  (Python substring test, needle non-empty)
Contains(needle, m) ==
    \E i \in StartPositions(needle, m) :
        \A j \in 1..Len(needle) : CharAt(m, i + j - 1) = needle[j]

\* any(kw in m for kw in kws)
AnyIn(kws, m) == \E k \in 1..Len(kws) : Contains(kws[k], m)

----------------------------------------------------------------------------
(* detect_task_type *)

code_keywords ==
    << <<"c","o","d","e">>, <<"f","u","n","c","t","i","o","n">>,
       <<"b","u","g">>, <<"e","r","r","o","r">>,
       <<"p","y","t","h","o","n">>,
       <<"j","a","v","a","s","c","r","i","p","t">>,
       <<"t","y","p","e","s","c","r","i","p","t">>,
       <<"h","t","m","l">>, <<"c","s","s">>, <<"s","q","l">>,
       <<"a","p","i">>, <<"d","a","t","a","b","a","s","e">> >>

math_keywords ==
    << <<"c","a","l","c","u","l","a","t","e">>, <<"m","a","t","h">>,
       <<"s","o","l","v","e">>, <<"e","q","u","a","t","i","o","n">>,
       <<"l","o","g","i","c">>, <<"r","e","a","s","o","n","i","n","g">>,
       <<"p","r","o","o","f">>,
       <<"a","l","g","o","r","i","t","h","m">> >>

creative_keywords ==
    << <<"w","r","i","t","e">>, <<"s","t","o","r","y">>,
       <<"p","o","e","m">>, <<"c","r","e","a","t","i","v","e">>,
       <<"e","s","s","a","y">>, <<"b","l","o","g">>,
       <<"a","r","t","i","c","l","e">>, <<"d","r","a","f","t">> >>

\* the long-context threshold taken one too low (>= 4000 in place of > 4000)
LongContextLen_inclusive == 4000 - 1

LongContextLen == 4000

\* the short threshold taken one too high (<= 50 in place of < 50)
FastResponseLen_inclusive == 50 + 1

FastResponseLen == 50

QuestionMark == <<"?">>

\* detect_task_type with the creative check ahead of the reasoning check
detect_task_type_creative_first(message) ==
    LET message_lower == lower(message) IN
    IF AnyIn(code_keywords, message_lower) THEN "coding"
    ELSE IF AnyIn(creative_keywords, message_lower) THEN "creative_writing"
    ELSE IF AnyIn(math_keywords, message_lower) THEN "reasoning"
    ELSE IF len(message) > LongContextLen THEN "long_context"
    ELSE IF len(message) < FastResponseLen /\ Contains(QuestionMark, message)
         THEN "fast_responses"
    ELSE "default"

\* detect_task_type whose catch-all names a task type outside the six
detect_task_type_general(message) ==
    LET message_lower == lower(message) IN
    IF AnyIn(code_keywords, message_lower) THEN "coding"
    ELSE IF AnyIn(math_keywords, message_lower) THEN "reasoning"
    ELSE IF AnyIn(creative_keywords, message_lower) THEN "creative_writing"
    ELSE IF len(message) > LongContextLen THEN "long_context"
    ELSE IF len(message) < FastResponseLen /\ Contains(QuestionMark, message)
         THEN "fast_responses"
    ELSE "general"

detect_task_type(message) ==
    LET message_lower == lower(message) IN
    IF AnyIn(code_keywords, message_lower) THEN "coding"
    ELSE IF AnyIn(math_keywords, message_lower) THEN "reasoning"
    ELSE IF AnyIn(creative_keywords, message_lower) THEN "creative_writing"
    ELSE IF len(message) > LongContextLen THEN "long_context"
    ELSE IF len(message) < FastResponseLen /\ Contains(QuestionMark, message)
         THEN "fast_responses"
    ELSE "default"

TaskTypes == {"coding", "reasoning", "creative_writing", "long_context",
              "fast_responses", "default"}

----------------------------------------------------------------------------
(* Input messages *)

SeqToSet(s) == {s[i] : i \in 1..Len(s)}

\* The pieces messages are built from: every keyword of the three lists,
\* the question mark, keywords in other letter cases, fragments that form a
\* keyword only across a piece boundary ("co" + "de"), a word that contains
\* a keyword ("capital" contains "api") and a keyword-free word.
PieceList ==
    << <<"h","e","l","l","o">>, <<"c","o">>, <<"d","e">> >>
    \o code_keywords
    \o << <<"P","y","t","h","o","n">>, <<"c","a","p","i","t","a","l">> >>
    \o math_keywords
    \o << <<"M","A","T","H">> >>
    \o creative_keywords
    \o << <<"S","t","o","r","Y">>, QuestionMark >>

\* The concatenations of at most n pieces taken from PieceList[from..] in
\* list order.
RECURSIVE Bodies(_, _)
Bodies(from, n) ==
    IF n = 0 THEN {<<>>}
    ELSE {<<>>} \cup
         UNION {{PieceList[i] \o b : b \in Bodies(i + 1, n - 1)} :
                   i \in from..Len(PieceList)}

\* The lengths a body is padded to: as it is, and to either side of the two
\* length thresholds of detect_task_type.
PaddedLens(body) ==
    {Len(body)} \cup
    {t \in {FastResponseLen - 1, FastResponseLen,
            LongContextLen, LongContextLen + 1} : t >= Len(body)}

Messages ==
    {[body |-> b, pad |-> t - Len(b)] : <<b, t>> \in
        UNION {{<<b, t>> : t \in PaddedLens(b)} : b \in Bodies(1, MaxPieces)}}

----------------------------------------------------------------------------
(* Python values *)

None == <<>>

Some(v) == <<v>>

\* truth value of an Optional[str]: None and "" are false
Truthy(opt) == opt # None /\ opt[1] # ""

EmptyDict == [k \in {} |-> k]

\* d.get(k, dflt) on a dict held as a function on its keys
DictGet(d, k, dflt) == IF k \in DOMAIN d THEN d[k] ELSE dflt

\* An insertion-ordered dict is a sequence of [key, value] items, keys unique.
ItemKeys(items) == {items[i].key : i \in 1..Len(items)}

\* items[k]
ItemAt(items, k) == items[CHOOSE i \in 1..Len(items) : items[i].key = k].value

\* {**base, **over}: the keys of both, over's value where both have the key
Spread(base, over) ==
    [k \in DOMAIN base \cup DOMAIN over |->
        IF k \in DOMAIN over THEN over[k] ELSE base[k]]

Return(v) == [raised |-> FALSE, value |-> v]

Raise(kind, arg) == [raised |-> TRUE, error |-> kind, arg |-> arg]

ModelNotFound == "ValueError: Model not found"

----------------------------------------------------------------------------
(* _get_model_config *)

\* the first item of the catalog, in dict order, whose config id or whose key
\* is model_id; 0 when there is none.  config.get("id") of a config without
\* an id is None, which equals no identifier.
FirstMatch(or_models, model_id) ==
    LET hits == {i \in 1..Len(or_models) :
                    \/ /\ "id" \in DOMAIN or_models[i].value
                       /\ or_models[i].value.id = model_id
                    \/ or_models[i].key = model_id}
    IN  IF hits = {} THEN 0 ELSE CHOOSE i \in hits : \A j \in hits : i <= j

\* _get_model_config that checks the openrouter catalog before moonshot's
get_model_config_openrouter_first(model_id) ==
    LET moonshot_models ==
            IF "moonshot" \in ItemKeys(providers)
            THEN DictGet(ItemAt(providers, "moonshot"), "models", <<>>)
            ELSE <<>>
        or_models ==
            IF "openrouter" \in ItemKeys(providers)
            THEN DictGet(ItemAt(providers, "openrouter"), "models", <<>>)
            ELSE <<>>
        hit == FirstMatch(or_models, model_id)
    IN  IF hit # 0
        THEN Return(Spread([provider |-> "openrouter",
                            provider_config |-> ItemAt(providers, "openrouter")],
                           or_models[hit].value))
        ELSE IF model_id \in ItemKeys(moonshot_models)
        THEN Return(Spread([provider |-> "moonshot",
                            provider_config |-> ItemAt(providers, "moonshot")],
                           ItemAt(moonshot_models, model_id)))
        ELSE Raise(ModelNotFound, model_id)

get_model_config(model_id) ==
    LET moonshot_models ==
            IF "moonshot" \in ItemKeys(providers)
            THEN DictGet(ItemAt(providers, "moonshot"), "models", <<>>)
            ELSE <<>>
        or_models ==
            IF "openrouter" \in ItemKeys(providers)
            THEN DictGet(ItemAt(providers, "openrouter"), "models", <<>>)
            ELSE <<>>
        hit == FirstMatch(or_models, model_id)
    IN  IF model_id \in ItemKeys(moonshot_models)
        THEN Return(Spread([provider |-> "moonshot",
                            provider_config |-> ItemAt(providers, "moonshot")],
                           ItemAt(moonshot_models, model_id)))
        ELSE IF hit # 0
        THEN Return(Spread([provider |-> "openrouter",
                            provider_config |-> ItemAt(providers, "openrouter")],
                           or_models[hit].value))
        ELSE Raise(ModelNotFound, model_id)

----------------------------------------------------------------------------
(* select_model *)

\* select_model that falls back to the default model when the override is
\* not found
select_model_override_fallback(message, preferred_model) ==
    IF Truthy(preferred_model)
    THEN LET first == get_model_config(preferred_model[1])
         IN  IF ~first.raised
             THEN [result |-> first, lookups |-> <<preferred_model[1]>>]
             ELSE [result  |-> get_model_config(default_model),
                   lookups |-> <<preferred_model[1], default_model>>]
    ELSE IF ~DictGet(auto_switch, "enabled", TRUE)
    THEN [result  |-> get_model_config(default_model),
          lookups |-> <<default_model>>]
    ELSE LET task_type   == detect_task_type(message)
             routing     == DictGet(task_routing, task_type, EmptyDict)
             primary_id  == DictGet(routing, "primary", default_model)
             fallback_id == DictGet(routing, "fallback", default_model)
             first       == get_model_config(primary_id)
         IN  IF ~first.raised
             THEN [result |-> first, lookups |-> <<primary_id>>]
             ELSE [result  |-> get_model_config(fallback_id),
                   lookups |-> <<primary_id, fallback_id>>]

\* select_model that does not read the auto_switch flag
select_model_always_auto(message, preferred_model) ==
    IF Truthy(preferred_model)
    THEN [result  |-> get_model_config(preferred_model[1]),
          lookups |-> <<preferred_model[1]>>]
    ELSE LET task_type   == detect_task_type(message)
             routing     == DictGet(task_routing, task_type, EmptyDict)
             primary_id  == DictGet(routing, "primary", default_model)
             fallback_id == DictGet(routing, "fallback", default_model)
             first       == get_model_config(primary_id)
         IN  IF ~first.raised
             THEN [result |-> first, lookups |-> <<primary_id>>]
             ELSE [result  |-> get_model_config(fallback_id),
                   lookups |-> <<primary_id, fallback_id>>]

\* select_model without the except branch: a failed primary lookup is raised
select_model_no_fallback(message, preferred_model) ==
    IF Truthy(preferred_model)
    THEN [result  |-> get_model_config(preferred_model[1]),
          lookups |-> <<preferred_model[1]>>]
    ELSE IF ~DictGet(auto_switch, "enabled", TRUE)
    THEN [result  |-> get_model_config(default_model),
          lookups |-> <<default_model>>]
    ELSE LET task_type   == detect_task_type(message)
             routing     == DictGet(task_routing, task_type, EmptyDict)
             primary_id  == DictGet(routing, "primary", default_model)
         IN  [result  |-> get_model_config(primary_id),
              lookups |-> <<primary_id>>]

\* select_model that tries the default model after primary and fallback
select_model_third_strike(message, preferred_model) ==
    IF Truthy(preferred_model)
    THEN [result  |-> get_model_config(preferred_model[1]),
          lookups |-> <<preferred_model[1]>>]
    ELSE IF ~DictGet(auto_switch, "enabled", TRUE)
    THEN [result  |-> get_model_config(default_model),
          lookups |-> <<default_model>>]
    ELSE LET task_type   == detect_task_type(message)
             routing     == DictGet(task_routing, task_type, EmptyDict)
             primary_id  == DictGet(routing, "primary", default_model)
             fallback_id == DictGet(routing, "fallback", default_model)
             first       == get_model_config(primary_id)
             second      == get_model_config(fallback_id)
         IN  IF ~first.raised
             THEN [result |-> first, lookups |-> <<primary_id>>]
             ELSE IF ~second.raised
             THEN [result |-> second, lookups |-> <<primary_id, fallback_id>>]
             ELSE [result  |-> get_model_config(default_model),
                   lookups |-> <<primary_id, fallback_id, default_model>>]

\* select_model that takes the "default" entry of task_routing when the task
\* type has none
select_model_default_entry(message, preferred_model) ==
    IF Truthy(preferred_model)
    THEN [result  |-> get_model_config(preferred_model[1]),
          lookups |-> <<preferred_model[1]>>]
    ELSE IF ~DictGet(auto_switch, "enabled", TRUE)
    THEN [result  |-> get_model_config(default_model),
          lookups |-> <<default_model>>]
    ELSE LET task_type   == detect_task_type(message)
             routing     == DictGet(task_routing, task_type,
                                DictGet(task_routing, "default", EmptyDict))
             primary_id  == DictGet(routing, "primary", default_model)
             fallback_id == DictGet(routing, "fallback", default_model)
             first       == get_model_config(primary_id)
         IN  IF ~first.raised
             THEN [result |-> first, lookups |-> <<primary_id>>]
             ELSE [result  |-> get_model_config(fallback_id),
                   lookups |-> <<primary_id, fallback_id>>]

\* The value is the pair of what select_model returns or raises and the
\* sequence of identifiers it handed to _get_model_config, in call order.
select_model(message, preferred_model) ==
    IF Truthy(preferred_model)
    THEN [result  |-> get_model_config(preferred_model[1]),
          lookups |-> <<preferred_model[1]>>]
    ELSE IF ~DictGet(auto_switch, "enabled", TRUE)
    THEN [result  |-> get_model_config(default_model),
          lookups |-> <<default_model>>]
    ELSE LET task_type   == detect_task_type(message)
             routing     == DictGet(task_routing, task_type, EmptyDict)
             primary_id  == DictGet(routing, "primary", default_model)
             fallback_id == DictGet(routing, "fallback", default_model)
             first       == get_model_config(primary_id)
         IN  IF ~first.raised
             THEN [result |-> first, lookups |-> <<primary_id>>]
             ELSE [result  |-> get_model_config(fallback_id),
                   lookups |-> <<primary_id, fallback_id>>]

----------------------------------------------------------------------------
(* Configurations *)

\* A provider catalog holds at most MaxCatalog models.
MaxCatalog == 2

\* The models a provider's catalog is filled from, in catalog order.
MoonshotPool ==
    << [key |-> "kimi-k2.5",
        value |-> [id |-> "moonshot-v1-k2.5", max_tokens |-> 8192]],
       [key |-> "shared", value |-> [id |-> "moonshot-shared"]],
       [key |-> "kimi-lite", value |-> [id |-> "moonshot-v1-lite"]] >>

OpenRouterPool ==
    << [key |-> "gpt-4o",
        value |-> [id |-> "openai/gpt-4o", max_tokens |-> 4096]],
       [key |-> "shared", value |-> [id |-> "vendor/shared"]],
       [key |-> "bare", value |-> [max_tokens |-> 1024]] >>

Pool(name) == IF name = "moonshot" THEN MoonshotPool ELSE OpenRouterPool

ProviderItem(name, n) ==
    [key |-> name,
     value |-> [api_key_env |-> IF name = "moonshot" THEN "MOONSHOT_API_KEY"
                                ELSE "OPENROUTER_API_KEY",
                base_url |-> IF name = "moonshot"
                             THEN "https://api.moonshot.cn/v1"
                             ELSE "https://openrouter.ai/api/v1",
                models |-> SubSeq(Pool(name), 1, Min(n, Len(Pool(name))))]]

\* The providers sections: the providers in either registration order, each
\* with a catalog of 0..MaxCatalog models, or one provider, or none.
ProviderSections ==
    {<<>>}
    \cup {<<ProviderItem(a, n)>> :
            a \in {"moonshot", "openrouter"}, n \in 0..MaxCatalog}
    \cup {<<ProviderItem(a, n), ProviderItem(b, k)>> :
            <<a, b>> \in {<<"moonshot", "openrouter">>,
                          <<"openrouter", "moonshot">>},
            <<n, k>> \in (0..MaxCatalog) \X (0..MaxCatalog)}

\* The entries of task_routing: primary and fallback each present or not.
RoutingEntries ==
    {Spread(p, f) :
        p \in {EmptyDict, [primary |-> "kimi-k2.5"], [primary |-> "ghost"]},
        f \in {EmptyDict, [fallback |-> "openai/gpt-4o"],
               [fallback |-> "phantom"]}}

TaskRoutingSections ==
    {EmptyDict}
    \cup {[t \in S |-> e] :
            S \in {{"coding"}, {"reasoning", "default"}}, e \in RoutingEntries}

\* The documents yaml.safe_load can return: each top-level key present or not.
Configs ==
    {Spread(Spread(d, [providers |-> ps]), Spread([task_routing |-> tr], a)) :
        d  \in {EmptyDict, [default_model |-> "gpt-4o"],
                [default_model |-> "ghost"]},
        ps \in ProviderSections,
        tr \in TaskRoutingSections,
        a  \in {EmptyDict, [auto_switch |-> EmptyDict],
                [auto_switch |-> [enabled |-> TRUE]],
                [auto_switch |-> [enabled |-> FALSE]]}}

\* The configuration the classifier is exercised under.
BaseConfig ==
    [default_model |-> "kimi-k2.5",
     providers |-> <<ProviderItem("moonshot", 1), ProviderItem("openrouter", 1)>>,
     task_routing |-> [t \in {"coding"} |->
                          [primary |-> "kimi-k2.5", fallback |-> "gpt-4o"]],
     auto_switch |-> [enabled |-> TRUE]]

Text(body) == [body |-> body, pad |-> 0]

\* The messages select_model is called with: one or more per task type.
SelectMessages ==
    { Text(<<"f","i","x"," ","b","u","g","?">>),
      Text(<<"S","o","l","v","e"," ","i","t">>),
      Text(<<"a"," ","p","o","e","m">>),
      [body |-> <<"h","i">>, pad |-> LongContextLen - 1],
      Text(<<"o","k","?">>),
      Text(<<"h","i">>) }

\* The values of the preferred_model argument.
PreferredModels ==
    {None, Some(""), Some("gpt-4o"), Some("openai/gpt-4o"),
     Some("moonshot-v1-k2.5"), Some("ghost")}

----------------------------------------------------------------------------
(* The router object and its operations *)

\* No call of the router is under way.
Idle == [op |-> "idle"]

\* ModelRouter.__init__ on the loaded configuration
Constructed(config) ==
    /\ default_model = DictGet(config, "default_model", "kimi-k2.5")
    /\ providers = DictGet(config, "providers", <<>>)
    /\ task_routing = DictGet(config, "task_routing", EmptyDict)
    /\ auto_switch = DictGet(config, "auto_switch", EmptyDict)
    /\ call = Idle

\* The environment with the API key of both providers set.
FullEnviron ==
    [v \in {"MOONSHOT_API_KEY", "OPENROUTER_API_KEY"} |->
        IF v = "MOONSHOT_API_KEY" THEN "sk-moonshot" ELSE "sk-openrouter"]

\* No generator of chat_completion exists.
NoChats == chats = <<>>

Init ==
    /\ \E config \in Configs : Constructed(config)
    /\ environ = FullEnviron
    /\ NoChats

InitClassify == Constructed(BaseConfig) /\ environ = FullEnviron /\ NoChats

\* The registry under every providers section.
InitRegistry ==
    /\ \E ps \in ProviderSections :
          Constructed(Spread(BaseConfig, [providers |-> ps]))
    /\ environ = FullEnviron
    /\ NoChats

\* The identifiers _get_model_config is called with: every catalog key and
\* every id of the pools, and an identifier of neither kind.
LookupIds ==
    {"ghost"}
    \cup UNION {{pool[i].key : i \in 1..Len(pool)} :
                  pool \in {MoonshotPool, OpenRouterPool}}
    \cup UNION {{pool[i].value.id :
                    i \in {j \in 1..Len(pool) : "id" \in DOMAIN pool[j].value}} :
                  pool \in {MoonshotPool, OpenRouterPool}}

GetModelConfig ==
    /\ call = Idle
    /\ \E model_id \in LookupIds :
        /\ call' = [op |-> "_get_model_config", model_id |-> model_id,
                    result |-> get_model_config(model_id)]
        /\ UNCHANGED <<default_model, providers, task_routing, auto_switch,
                     environ, chats>>

DetectTaskType(messages) ==
    /\ call = Idle
    /\ \E message \in messages :
        /\ call' = [op |-> "detect_task_type", message |-> message,
                    result |-> detect_task_type(message)]
        /\ UNCHANGED <<default_model, providers, task_routing, auto_switch,
                     environ, chats>>

SelectModel ==
    /\ call = Idle
    /\ \E message \in SelectMessages, preferred_model \in PreferredModels :
        LET out == select_model(message, preferred_model) IN
        /\ call' = [op |-> "select_model", message |-> message,
                    preferred_model |-> preferred_model,
                    result |-> out.result, lookups |-> out.lookups]
        /\ UNCHANGED <<default_model, providers, task_routing, auto_switch,
                     environ, chats>>

\* The caller has taken the value or the exception of the finished call.
Finish ==
    /\ call # Idle
    /\ call' = Idle
    /\ UNCHANGED <<default_model, providers, task_routing, auto_switch,
                     environ, chats>>

ClassifyAny == DetectTaskType(Messages)

ClassifySome == DetectTaskType(SelectMessages)

NextClassify == ClassifyAny \/ Finish

Next == SelectModel \/ ClassifySome \/ Finish

NextRegistry == GetModelConfig \/ Finish

\* The registry lookup alone, under every providers section.
SpecRegistry == InitRegistry /\ [][NextRegistry]_vars

\* The classifier alone, over all generated messages.
SpecClassify == InitClassify /\ [][NextClassify]_vars

\* The router under every configuration.
Spec == Init /\ [][Next]_vars

----------------------------------------------------------------------------
(* Wire texts and JSON *)

\* The texts below are Python strs held as sequences of characters.

\* "data: ", the marker of a relevant line
DataPrefix ==
    <<"d","a","t","a",":"," ">>

\* "[DONE]"
DoneText ==
    <<"[","D","O","N","E","]">>

\* the contents a provider sends: "Hel", "lo" and "Hello"
Hel == <<"H","e","l">>

Lo == <<"l","o">>

Hello == Hel \o Lo

\* JSON documents are built from these pieces of text.
\* {"choices":[
ChoicesOpen ==
    <<"{","\"","c","h","o","i","c","e","s","\"",":","[">>

\* {"delta":
DeltaOpen ==
    <<"{","\"","d","e","l","t","a","\"",":">>

\* {"message":
MessageOpen ==
    <<"{","\"","m","e","s","s","a","g","e","\"",":">>

\* {"content":
ContentOpen ==
    <<"{","\"","c","o","n","t","e","n","t","\"",":">>

\* null
NullText ==
    <<"n","u","l","l">>

Quoted(chars) == <<"\"">> \o chars \o <<"\"">>

\* {"choices":[{"delta":{"content":<content>}}]}
ChunkText(content) ==
    ChoicesOpen \o DeltaOpen \o ContentOpen \o content \o <<"}","}","]","}">>

\* {"choices":[{"delta":{}}]}
EmptyDeltaText == ChoicesOpen \o DeltaOpen \o <<"{","}","}","]","}">>

\* {"choices":[{"message":{"content":<content>}}]}
BodyText(content) ==
    ChoicesOpen \o MessageOpen \o ContentOpen \o content
        \o <<"}","}","]","}">>

\* {"choices":[]}
NoChoicesText == ChoicesOpen \o <<"]","}">>

\* {"error":"unauthorized"}
ErrorText ==
    <<"{","\"","e","r","r","o","r","\"",":","\"","u","n","a","u","t","h",
      "o","r","i","z","e","d","\"","}">>

\* {oops  -- not a JSON document
GarbageText ==
    <<"{","o","o","p","s">>

\* Python values as they come out of json.loads: a tag and the value.
PyStr(chars) == [t |-> "str", v |-> chars]

PyNone == [t |-> "None"]

PyDict(d) == [t |-> "dict", v |-> d]

PyList(q) == [t |-> "list", v |-> q]

ChunkValue(content) ==
    PyDict([choices |-> PyList(<<PyDict([delta |->
                PyDict([content |-> content])])>>)])

BodyValue(content) ==
    PyDict([choices |-> PyList(<<PyDict([message |->
                PyDict([content |-> content])])>>)])

\* The JSON documents of the model, each text with the value it denotes.
JsonDocuments ==
    { <<ChunkText(Quoted(Hel)), ChunkValue(PyStr(Hel))>>,
      <<ChunkText(Quoted(Lo)), ChunkValue(PyStr(Lo))>>,
      <<ChunkText(NullText), ChunkValue(PyNone)>>,
      <<EmptyDeltaText,
        PyDict([choices |-> PyList(<<PyDict([delta |->
                    PyDict(EmptyDict)])>>)])>>,
      <<BodyText(Quoted(Hello)), BodyValue(PyStr(Hello))>>,
      <<BodyText(NullText), BodyValue(PyNone)>>,
      <<NoChoicesText, PyDict([choices |-> PyList(<<>>)])>>,
      <<ErrorText,
        PyDict([error |-> PyStr(<<"u","n","a","u","t","h","o","r","i","z",
                                  "e","d">>)])>> }

\* json.loads(text): the value of the document with this text; any other
\* text of the model is not JSON and raises.
json_loads(text) ==
    IF \E doc \in JsonDocuments : doc[1] = text
    THEN Return((CHOOSE doc \in JsonDocuments : doc[1] = text)[2])
    ELSE Raise("JSONDecodeError", "not a JSON document")

\* x[key] for a str key
Subscript(x, key) ==
    IF x.t = "dict"
    THEN IF key \in DOMAIN x.v THEN Return(x.v[key])
         ELSE Raise("KeyError", key)
    ELSE Raise("TypeError", key)

\* x[0]
First(x) ==
    IF x.t = "list"
    THEN IF Len(x.v) > 0 THEN Return(x.v[1]) ELSE Raise("IndexError", "0")
    ELSE IF x.t = "str"
    THEN IF Len(x.v) > 0 THEN Return(PyStr(<<x.v[1]>>))
         ELSE Raise("IndexError", "0")
    ELSE IF x.t = "dict" THEN Raise("KeyError", "0")
    ELSE Raise("TypeError", "0")

\* x.get(key, dflt)
GetOr(x, key, dflt) ==
    IF x.t = "dict" THEN Return(DictGet(x.v, key, dflt))
    ELSE Raise("AttributeError", "get")

\* startswith that leaves the last character of the prefix out
StartsWith_short(line, prefix) ==
    /\ Len(line) >= Len(prefix) - 1
    /\ SubSeq(line, 1, Len(prefix) - 1) = SubSeq(prefix, 1, Len(prefix) - 1)

\* line.startswith(prefix)
StartsWith(line, prefix) ==
    /\ Len(line) >= Len(prefix)
    /\ SubSeq(line, 1, Len(prefix)) = prefix

\* line[6:]
From6(line) == SubSeq(line, 7, Len(line))

----------------------------------------------------------------------------
(* _extract_content *)

\* _extract_content without the try/except: a failed step raises
extract_content_unguarded(data) ==
    LET parsed == json_loads(data) IN
    IF parsed.raised THEN parsed ELSE
    LET choices == Subscript(parsed.value, "choices") IN
    IF choices.raised THEN choices ELSE
    LET choice == First(choices.value) IN
    IF choice.raised THEN choice ELSE
    LET delta == GetOr(choice.value, "delta", PyDict(EmptyDict)) IN
    IF delta.raised THEN delta ELSE
    GetOr(delta.value, "content", PyStr(<<>>))

\* _extract_content that reads the message field of the choice
extract_content_message(data) ==
    LET parsed == json_loads(data) IN
    IF parsed.raised THEN Return(PyStr(<<>>)) ELSE
    LET choices == Subscript(parsed.value, "choices") IN
    IF choices.raised THEN Return(PyStr(<<>>)) ELSE
    LET choice == First(choices.value) IN
    IF choice.raised THEN Return(PyStr(<<>>)) ELSE
    LET delta == GetOr(choice.value, "message", PyDict(EmptyDict)) IN
    IF delta.raised THEN Return(PyStr(<<>>)) ELSE
    LET content == GetOr(delta.value, "content", PyStr(<<>>)) IN
    IF content.raised THEN Return(PyStr(<<>>)) ELSE content

\* The value is Return(fragment): every exception of the body is caught and
\* turned into the empty str.
extract_content(data) ==
    LET parsed == json_loads(data) IN
    IF parsed.raised THEN Return(PyStr(<<>>)) ELSE
    LET choices == Subscript(parsed.value, "choices") IN
    IF choices.raised THEN Return(PyStr(<<>>)) ELSE
    LET choice == First(choices.value) IN
    IF choice.raised THEN Return(PyStr(<<>>)) ELSE
    LET delta == GetOr(choice.value, "delta", PyDict(EmptyDict)) IN
    IF delta.raised THEN Return(PyStr(<<>>)) ELSE
    LET content == GetOr(delta.value, "content", PyStr(<<>>)) IN
    IF content.raised THEN Return(PyStr(<<>>)) ELSE content

\* data["choices"][0]["message"]["content"] of the non-streaming branch that
\* turns a failure into the empty str
message_content_swallowed(data) ==
    LET choices == Subscript(data, "choices") IN
    IF choices.raised THEN Return(PyStr(<<>>)) ELSE
    LET choice == First(choices.value) IN
    IF choice.raised THEN Return(PyStr(<<>>)) ELSE
    LET message == Subscript(choice.value, "message") IN
    IF message.raised THEN Return(PyStr(<<>>)) ELSE
    LET content == Subscript(message.value, "content") IN
    IF content.raised THEN Return(PyStr(<<>>)) ELSE content

\* data["choices"][0]["message"]["content"] of the non-streaming branch
message_content(data) ==
    LET choices == Subscript(data, "choices") IN
    IF choices.raised THEN choices ELSE
    LET choice == First(choices.value) IN
    IF choice.raised THEN choice ELSE
    LET message == Subscript(choice.value, "message") IN
    IF message.raised THEN message ELSE
    Subscript(message.value, "content")

----------------------------------------------------------------------------
(* get_api_key and the request of the two transports *)

MissingApiKey == "ValueError: Missing API key"

\* get_api_key that takes an empty value of the variable as a key
get_api_key_empty_accepted(provider) ==
    IF provider \notin ItemKeys(providers) THEN Raise("KeyError", provider)
    ELSE LET env_var == ItemAt(providers, provider).api_key_env IN
         IF env_var \notin DOMAIN environ
         THEN Raise(MissingApiKey, env_var)
         ELSE Return(environ[env_var])

\* os.getenv gives None for a variable that is not set; `not api_key` holds
\* for None and for the empty str.
get_api_key(provider) ==
    IF provider \notin ItemKeys(providers) THEN Raise("KeyError", provider)
    ELSE LET env_var == ItemAt(providers, provider).api_key_env IN
         IF env_var \notin DOMAIN environ \/ environ[env_var] = ""
         THEN Raise(MissingApiKey, env_var)
         ELSE Return(environ[env_var])

DefaultMaxTokens == 4096

\* The payload dict of both transports; model_config["id"] raises KeyError
\* for a catalog entry without an id.
Payload(message, model_config, stream) ==
    IF "id" \notin DOMAIN model_config THEN Raise("KeyError", "id")
    ELSE Return([model |-> model_config.id,
                 messages |-> <<[role |-> "user", content |-> message]>>,
                 stream |-> stream,
                 max_tokens |->
                     DictGet(model_config, "max_tokens", DefaultMaxTokens)])

\* _call_moonshot up to its first await: the request it is about to send,
\* or the exception raised before.
call_moonshot(message, model_config, stream) ==
    LET api_key == get_api_key("moonshot")
        payload == Payload(message, model_config, stream)
    IN  IF api_key.raised THEN api_key
        ELSE IF payload.raised THEN payload
        ELSE Return([provider |-> "moonshot",
                     base_url |-> model_config.provider_config.base_url,
                     path |-> "/chat/completions",
                     headers |-> [Authorization |-> <<"Bearer", api_key.value>>],
                     json |-> payload.value,
                     timeout |-> 60])

\* _call_openrouter up to its first await
call_openrouter(message, model_config, stream) ==
    LET api_key == get_api_key("openrouter")
        payload == Payload(message, model_config, stream)
    IN  IF api_key.raised THEN api_key
        ELSE IF payload.raised THEN payload
        ELSE Return([provider |-> "openrouter",
                     base_url |-> model_config.provider_config.base_url,
                     path |-> "/chat/completions",
                     headers |-> [Authorization |-> <<"Bearer", api_key.value>>,
                                  Referer |-> "https://clawdbot.app",
                                  Title |-> "Clawdbot"],
                     json |-> payload.value,
                     timeout |-> 60])

\* the loop body of the streaming branch that passes over the "[DONE]" line
\* and reads on
stream_step_done_passed(line) ==
    IF StartsWith(line, DataPrefix)
    THEN LET data == From6(line) IN
         IF data = DoneText THEN [do |-> "continue"]
         ELSE LET content == extract_content(data) IN
              IF content.raised
              THEN [do |-> "raise", error |-> content]
              ELSE [do |-> "yield", fragment |-> content.value]
    ELSE [do |-> "continue"]

\* The loop body of the streaming branch for one received line: leave the
\* loop, yield a fragment, or go on to the next line.
stream_step(line) ==
    IF StartsWith(line, DataPrefix)
    THEN LET data == From6(line) IN
         IF data = DoneText THEN [do |-> "break"]
         ELSE LET content == extract_content(data) IN
              IF content.raised
              THEN [do |-> "raise", error |-> content]
              ELSE [do |-> "yield", fragment |-> content.value]
    ELSE [do |-> "continue"]

----------------------------------------------------------------------------
(* Providers' answers *)

\* A streamed answer has at most MaxLines lines.
MaxLines == 3

DataLine(payload) == DataPrefix \o payload

\* The lines a provider streams: chunks with content, the end marker, a
\* payload that is not JSON, a chunk without content, a chunk whose content
\* is null, and a line without the marker.
LinePool ==
    { DataLine(ChunkText(Quoted(Hel))), DataLine(ChunkText(Quoted(Lo))),
      DataLine(DoneText), DataLine(GarbageText), DataLine(EmptyDeltaText),
      DataLine(ChunkText(NullText)), ErrorText }

SeqsUpTo(S, n) == UNION {[1..k -> S] : k \in 0..n}

Statuses == {200, 500}

\* What the deterministic provider answers to every prompt: the text
\* "Hello", streamed in two chunks and a closing chunk, or in one body.
MockLines ==
    << DataLine(ChunkText(Quoted(Hel))), DataLine(ChunkText(Quoted(Lo))),
       DataLine(EmptyDeltaText), DataLine(DoneText) >>

MockReplies(stream) ==
    IF stream THEN {[status |-> 200, lines |-> MockLines]}
    ELSE {[status |-> 200, body |-> BodyText(Quoted(Hello))]}

\* What any provider may answer.
AnyReplies(stream) ==
    IF stream
    THEN {[status |-> st, lines |-> ls] :
            st \in Statuses, ls \in SeqsUpTo(LinePool, MaxLines) \cup {MockLines}}
    ELSE {[status |-> st, body |-> b] :
            st \in Statuses,
            b \in {BodyText(Quoted(Hello)), BodyText(NullText), NoChoicesText,
                   ErrorText, GarbageText}}

----------------------------------------------------------------------------
(* chat_completion *)

TransportError == "httpx.TransportError"

\* A slot of chats without a generator.
NewChat ==
    [pc |-> "idle", args |-> None, selected |-> None, lookups |-> <<>>,
     pending |-> None, requests |-> <<>>, response |-> None, pos |-> 0,
     fragments |-> <<>>, outcome |-> "none", error |-> None,
     connection |-> "none"]

\* the generator has finished by StopAsyncIteration
Completed(chat) ==
    [chat EXCEPT !.pc = "done", !.outcome = "completed",
                 !.connection = IF chat.connection = "none" THEN "none"
                                ELSE "closed"]

\* the generator has finished by the exception err
Raised(chat, err) ==
    [chat EXCEPT !.pc = "done", !.outcome = "raised", !.error = Some(err),
                 !.connection = IF chat.connection = "none" THEN "none"
                                ELSE "closed"]

\* chat_completion from the call to its first await: select_model, the
\* dispatch on the provider and the transport up to the request.
chat_completion(message, model, stream) ==
    LET sel  == select_model(message, model)
        chat == [NewChat EXCEPT
                    !.args = Some([message |-> message, model |-> model,
                                   stream |-> stream]),
                    !.selected = Some(sel.result),
                    !.lookups = sel.lookups]
    IN  IF sel.result.raised THEN Raised(chat, sel.result)
        ELSE LET model_config == sel.result.value
                 provider == model_config.provider
                 request ==
                     IF provider = "moonshot"
                     THEN call_moonshot(message, model_config, stream)
                     ELSE call_openrouter(message, model_config, stream)
             IN  IF provider # "moonshot" /\ provider # "openrouter"
                 THEN Completed(chat)
                 ELSE IF request.raised THEN Raised(chat, request)
                 ELSE [chat EXCEPT !.pc = "request",
                                   !.outcome = "running",
                                   !.pending = Some(request.value)]

\* The arguments chat_completion is called with.
ChatInputs ==
    [message : {Text(<<"h","i">>), Text(<<"f","i","x"," ","b","u","g","?">>)},
     model : {None, Some("gpt-4o"), Some("ghost")},
     stream : BOOLEAN]

ChatFrame ==
    UNCHANGED <<default_model, providers, task_routing, auto_switch, call,
                environ>>

\* chat_completion that keeps the selected model as the new default
ChatBegin_sticky(c, inputs) ==
    /\ call = Idle
    /\ chats[c].pc = "idle"
    /\ \E in \in inputs :
         LET chat == chat_completion(in.message, in.model, in.stream) IN
         /\ chats' = [chats EXCEPT ![c] = chat]
         /\ default_model' =
                IF chat.selected[1].raised \/ "id" \notin DOMAIN chat.selected[1].value
                THEN default_model ELSE chat.selected[1].value.id
    /\ UNCHANGED <<providers, task_routing, auto_switch, call, environ>>

\* The caller creates generator c and starts to iterate it.
ChatBegin(c, inputs) ==
    /\ call = Idle
    /\ chats[c].pc = "idle"
    /\ \E in \in inputs :
         chats' = [chats EXCEPT
                      ![c] = chat_completion(in.message, in.model, in.stream)]
    /\ ChatFrame

\* what the generator does with the answer to its request
Answered(chat, reply) ==
    IF chat.args[1].stream
    THEN [chat EXCEPT !.pc = "stream", !.response = Some(reply), !.pos = 0]
    ELSE LET data == json_loads(reply.body) IN
         IF data.raised
         THEN Raised([chat EXCEPT !.response = Some(reply)], data)
         ELSE LET content == message_content(data.value) IN
              IF content.raised
              THEN Raised([chat EXCEPT !.response = Some(reply)], content)
              ELSE [chat EXCEPT !.pc = "yielded", !.response = Some(reply),
                                !.fragments = <<content.value>>]

\* the stream flag the generator was called with
Streamed(chat) == chat.args # None /\ chat.args[1].stream

\* The request is sent and answered: the streaming branch has the response
\* open and waits for its first line, the other branch has read the body.
ChatRequest(c, replies) ==
    /\ call = Idle
    /\ chats[c].pc = "request"
    /\ LET sent == [chats[c] EXCEPT
                       !.requests = Append(@, chats[c].pending[1]),
                       !.connection = "open"]
       IN  \E reply \in replies :
              chats' = [chats EXCEPT ![c] = Answered(sent, reply)]
    /\ ChatFrame

\* a failed request after which the call goes on with the default model
ChatRequestFails_default(c) ==
    /\ call = Idle
    /\ chats[c].pc = "request"
    /\ LET sent == [chats[c] EXCEPT
                       !.requests = Append(@, chats[c].pending[1]),
                       !.connection = "open"]
           again == get_model_config(default_model)
           request ==
               IF again.raised THEN again
               ELSE IF again.value.provider = "moonshot"
               THEN call_moonshot(sent.args[1].message, again.value,
                                  sent.args[1].stream)
               ELSE call_openrouter(sent.args[1].message, again.value,
                                    sent.args[1].stream)
       IN  chats' = [chats EXCEPT ![c] =
              IF Len(chats[c].requests) > 0 \/ request.raised
              THEN Raised(sent, Raise(TransportError, "request"))
              ELSE [sent EXCEPT !.selected = Some(again),
                                !.lookups = Append(@, default_model),
                                !.pending = Some(request.value)]]
    /\ ChatFrame

\* a failed request that is sent a second time
ChatRequestFails_retried(c) ==
    /\ call = Idle
    /\ chats[c].pc = "request"
    /\ chats' = [chats EXCEPT ![c] =
                    Raised([chats[c] EXCEPT
                               !.requests = Append(Append(@,
                                   chats[c].pending[1]), chats[c].pending[1]),
                               !.connection = "open"],
                           Raise(TransportError, "request"))]
    /\ ChatFrame

\* The request is sent and fails in the transport (no connection, timeout).
ChatRequestFails(c) ==
    /\ call = Idle
    /\ chats[c].pc = "request"
    /\ chats' = [chats EXCEPT ![c] =
                    Raised([chats[c] EXCEPT
                               !.requests = Append(@, chats[c].pending[1]),
                               !.connection = "open"],
                           Raise(TransportError, "request"))]
    /\ ChatFrame

\* the loop body that puts its fragment ahead of the earlier ones
ChatLine_newest_first(c) ==
    /\ call = Idle
    /\ chats[c].pc = "stream"
    /\ chats[c].pos < Len(chats[c].response[1].lines)
    /\ LET chat == [chats[c] EXCEPT !.pos = @ + 1]
           step == stream_step(chat.response[1].lines[chat.pos])
       IN  chats' = [chats EXCEPT ![c] =
              CASE step.do = "break" -> Completed(chat)
                [] step.do = "raise" -> Raised(chat, step.error)
                [] step.do = "yield" ->
                      [chat EXCEPT !.fragments = <<step.fragment>> \o @]
                [] step.do = "continue" -> chat]
    /\ ChatFrame

\* the loop body that appends its fragment to every generator's sequence
ChatLine_shared(c) ==
    /\ call = Idle
    /\ chats[c].pc = "stream"
    /\ chats[c].pos < Len(chats[c].response[1].lines)
    /\ LET chat == [chats[c] EXCEPT !.pos = @ + 1]
           step == stream_step(chat.response[1].lines[chat.pos])
       IN  chats' = [d \in DOMAIN chats |->
              LET own == IF d = c THEN chat ELSE chats[d] IN
              CASE step.do = "break" -> IF d = c THEN Completed(own) ELSE own
                [] step.do = "raise" ->
                      IF d = c THEN Raised(own, step.error) ELSE own
                [] step.do = "yield" ->
                      IF d = c \/ own.pc = "stream"
                      THEN [own EXCEPT !.fragments = Append(@, step.fragment)]
                      ELSE own
                [] step.do = "continue" -> own]
    /\ ChatFrame

\* The next line of the streamed response arrives.
ChatLine(c) ==
    /\ call = Idle
    /\ chats[c].pc = "stream"
    /\ chats[c].pos < Len(chats[c].response[1].lines)
    /\ LET chat == [chats[c] EXCEPT !.pos = @ + 1]
           step == stream_step(chat.response[1].lines[chat.pos])
       IN  chats' = [chats EXCEPT ![c] =
              CASE step.do = "break" -> Completed(chat)
                [] step.do = "raise" -> Raised(chat, step.error)
                [] step.do = "yield" ->
                      [chat EXCEPT !.fragments = Append(@, step.fragment)]
                [] step.do = "continue" -> chat]
    /\ ChatFrame

\* a generator that stays where it is when it is resumed at its end
ChatEnd_waits(c) ==
    /\ call = Idle
    /\ \/ /\ chats[c].pc = "stream"
          /\ chats[c].pos = Len(chats[c].response[1].lines)
       \/ chats[c].pc = "yielded"
    /\ UNCHANGED chats
    /\ ChatFrame

\* The response has no further line, or the generator is resumed after the
\* yield of the non-streaming branch: the body runs to its end.
ChatEnd(c) ==
    /\ call = Idle
    /\ \/ /\ chats[c].pc = "stream"
          /\ chats[c].pos = Len(chats[c].response[1].lines)
       \/ chats[c].pc = "yielded"
    /\ chats' = [chats EXCEPT ![c] = Completed(chats[c])]
    /\ ChatFrame

\* The connection breaks while the generator waits for a line.
ChatStreamFails(c) ==
    /\ call = Idle
    /\ chats[c].pc = "stream"
    /\ chats' = [chats EXCEPT ![c] =
                    Raised(chats[c], Raise(TransportError, "stream"))]
    /\ ChatFrame

\* The caller lets go of the finished generator.
ChatDrop(c) ==
    /\ call = Idle
    /\ chats[c].pc = "done"
    /\ chats' = [chats EXCEPT ![c] = NewChat]
    /\ ChatFrame

\* select_model called directly while no generator is under way
SelectBetweenChats ==
    /\ \A c \in DOMAIN chats : chats[c].pc = "idle"
    /\ SelectModel

\* The environments: both keys set, moonshot's key not set, openrouter's
\* key set to the empty str.
Environs ==
    { FullEnviron,
      [v \in {"OPENROUTER_API_KEY"} |-> "sk-openrouter"],
      [v \in {"MOONSHOT_API_KEY", "OPENROUTER_API_KEY"} |->
          IF v = "MOONSHOT_API_KEY" THEN "sk-moonshot" ELSE ""] }

InitChat ==
    /\ Constructed(BaseConfig)
    /\ environ \in Environs
    /\ chats = <<NewChat>>

BeginAny == \E c \in DOMAIN chats : ChatBegin(c, ChatInputs)

RequestAny ==
    \E c \in DOMAIN chats : ChatRequest(c, AnyReplies(Streamed(chats[c])))

RequestFails == \E c \in DOMAIN chats : ChatRequestFails(c)

Line == \E c \in DOMAIN chats : ChatLine(c)

End == \E c \in DOMAIN chats : ChatEnd(c)

StreamFails == \E c \in DOMAIN chats : ChatStreamFails(c)

Drop == \E c \in DOMAIN chats : ChatDrop(c)

NextChat ==
    \/ BeginAny \/ RequestAny \/ RequestFails \/ Line \/ End
    \/ StreamFails \/ Drop \/ SelectBetweenChats \/ Finish

\* One generator at a time against any provider, and direct select_model
\* calls in between.
SpecChat == InitChat /\ [][NextChat]_vars

\* Two generators against the deterministic provider.
InitMock ==
    /\ Constructed(BaseConfig)
    /\ environ = FullEnviron
    /\ chats = <<NewChat, NewChat>>

RequestMock ==
    \E c \in DOMAIN chats : ChatRequest(c, MockReplies(Streamed(chats[c])))

NextMock == BeginAny \/ RequestMock \/ Line \/ End \/ Drop

SpecMock == InitMock /\ [][NextMock]_vars

----------------------------------------------------------------------------
(* Properties of detect_task_type, checked under SpecClassify *)

Classified == call.op = "detect_task_type"

\* Two characters are the same letter up to case.
SameLetter(a, b) == LowerChar(a) = LowerChar(b)

\* kw occurs in the text of m at some position, in any letter case, possibly
\* inside a longer word.  No keyword holds a Filler character, so an
\* occurrence lies within the body.
Mentions(kw, m) ==
    \E i \in 1..Len(m.body) :
        /\ i + Len(kw) - 1 <= Len(m.body)
        /\ \A j \in 1..Len(kw) : SameLetter(m.body[i + j - 1], kw[j])

MentionsAny(kws, m) == \E kw \in SeqToSet(kws) : Mentions(kw, m)

HasQuestionMark(m) == \E i \in 1..Len(m.body) : m.body[i] = "?"

KeywordFree(m) ==
    /\ ~MentionsAny(code_keywords, m)
    /\ ~MentionsAny(math_keywords, m)
    /\ ~MentionsAny(creative_keywords, m)

\* The six rules in the documented order, and the category of each.
RuleHolds(r, m) ==
    CASE r = 1 -> MentionsAny(code_keywords, m)
      [] r = 2 -> MentionsAny(math_keywords, m)
      [] r = 3 -> MentionsAny(creative_keywords, m)
      [] r = 4 -> len(m) > 4000
      [] r = 5 -> len(m) < 50 /\ HasQuestionMark(m)
      [] r = 6 -> TRUE

RuleCategory ==
    <<"coding", "reasoning", "creative_writing", "long_context",
      "fast_responses", "default">>

\* C1: every message that contains a coding keyword, in any letter case and
\* possibly inside a larger word, is classified "coding", whatever its
\* length, its question marks and its other keywords.
C1_CodingKeywordWins ==
    (Classified /\ MentionsAny(code_keywords, call.message))
        => call.result = "coding"

\* A message longer than 4000 characters that holds a coding keyword, a
\* reasoning keyword and a question mark has been classified "coding".
C1_Witness ==
    /\ Classified
    /\ MentionsAny(code_keywords, call.message)
    /\ MentionsAny(math_keywords, call.message)
    /\ len(call.message) > 4000
    /\ call.result = "coding"

\* C2: the result is the category of the first of the six rules, in the
\* order coding, reasoning, creative_writing, long_context, fast_responses,
\* default, whose condition holds.
C2_FirstMatchWins ==
    Classified =>
        LET holds == [r \in 1..6 |-> RuleHolds(r, call.message)]
        IN  \A r \in 1..6 :
                (holds[r] /\ \A q \in 1..(r - 1) : ~holds[q])
                    => call.result = RuleCategory[r]

\* A message of more than 4000 characters with a reasoning keyword and a
\* creative keyword, and no coding keyword, has been classified "reasoning".
C2_Witness ==
    /\ Classified
    /\ ~MentionsAny(code_keywords, call.message)
    /\ MentionsAny(math_keywords, call.message)
    /\ MentionsAny(creative_keywords, call.message)
    /\ len(call.message) > 4000
    /\ call.result = "reasoning"

\* C3: detect_task_type returns one of the six task types for every
\* message, the empty string included.
C3_Total == Classified => call.result \in TaskTypes

\* The empty string has been classified, as "default".
C3_Witness ==
    /\ Classified
    /\ len(call.message) = 0
    /\ call.result = "default"

\* C4: a message without keywords is "long_context" exactly when it is
\* longer than 4000 characters.
C4_LongContext ==
    (Classified /\ KeywordFree(call.message))
        => (call.result = "long_context" <=> len(call.message) > 4000)

\* A keyword-free message of exactly 4000 characters has been classified,
\* and not as "long_context".
C4_Witness ==
    /\ Classified
    /\ KeywordFree(call.message)
    /\ len(call.message) = 4000
    /\ call.result # "long_context"

\* C5: a message without keywords is "fast_responses" exactly when it is
\* shorter than 50 characters and holds a question mark; otherwise, up to
\* 4000 characters, it is "default".
C5_FastResponses ==
    (Classified /\ KeywordFree(call.message))
        => LET short == len(call.message) < 50
                            /\ HasQuestionMark(call.message)
           IN  /\ call.result = "fast_responses" <=> short
               /\ (~short /\ len(call.message) <= 4000)
                      => call.result = "default"

\* A keyword-free message of 50 characters with a question mark has been
\* classified "default".
C5_Witness ==
    /\ Classified
    /\ KeywordFree(call.message)
    /\ HasQuestionMark(call.message)
    /\ len(call.message) = 50
    /\ call.result = "default"

----------------------------------------------------------------------------
(* Properties of select_model, checked under Spec *)

Selected == call.op = "select_model"

\* model_id is a catalog key or the id of a catalog entry of some provider.
Registered(model_id) ==
    \E p \in 1..Len(providers) :
        LET models == DictGet(providers[p].value, "models", <<>>)
        IN  \E i \in 1..Len(models) :
                \/ models[i].key = model_id
                \/ /\ "id" \in DOMAIN models[i].value
                   /\ models[i].value.id = model_id

\* the registry lookup of model_id succeeds
Resolves(model_id) == ~get_model_config(model_id).raised

NotFound(model_id) == Raise(ModelNotFound, model_id)

\* the caller gave an override the code takes as one
OverrideGiven == Truthy(call.preferred_model)

AutoSwitchOn == DictGet(auto_switch, "enabled", TRUE)

\* the task_routing entry, and the identifiers, of the call's message
RoutedType == detect_task_type(call.message)

PrimaryOfTask ==
    DictGet(DictGet(task_routing, RoutedType, EmptyDict),
            "primary", default_model)

FallbackOfTask ==
    DictGet(DictGet(task_routing, RoutedType, EmptyDict),
            "fallback", default_model)

\* The part of C6 for the overrides the code takes as given (non-empty):
\* with such an override that no provider catalog registers, select_model
\* fails with model-not-found for that override, whatever the message and
\* the auto_switch flag, and looks up nothing but the override.
C6_UnregisteredOverrideFails ==
    (Selected /\ OverrideGiven /\ ~Registered(call.preferred_model[1]))
        => /\ call.result = NotFound(call.preferred_model[1])
           /\ call.lookups = <<call.preferred_model[1]>>

\* An unregistered override has failed although auto-switch is on and the
\* default model and the task's primary model both resolve.
C6_Witness ==
    /\ Selected /\ OverrideGiven
    /\ ~Registered(call.preferred_model[1])
    /\ AutoSwitchOn
    /\ Resolves(default_model) /\ Resolves(PrimaryOfTask)
    /\ call.result.raised

\* C7: with auto_switch.enabled false and no override, select_model returns
\* the registry's configuration of default_model for every message, and
\* fails with model-not-found when default_model is not registered.
C7_AutoSwitchOffUsesDefault ==
    (Selected /\ ~OverrideGiven /\ ~AutoSwitchOn)
        => /\ call.result = get_model_config(default_model)
           /\ call.lookups = <<default_model>>
           /\ ~Registered(default_model)
                 => call.result = NotFound(default_model)

\* With auto-switch off the default model has been returned for a message
\* whose task type routes to a different, resolvable primary model.
C7_Witness ==
    /\ Selected /\ ~OverrideGiven /\ ~AutoSwitchOn
    /\ RoutedType \in DOMAIN task_routing
    /\ Resolves(PrimaryOfTask) /\ PrimaryOfTask # default_model
    /\ ~call.result.raised
    /\ call.result = get_model_config(default_model)
    /\ call.result # get_model_config(PrimaryOfTask)

C10_AbsentEntryUsesDefault ==
    (Selected /\ ~OverrideGiven /\ AutoSwitchOn
        /\ RoutedType \notin DOMAIN task_routing)
        => /\ call.result = get_model_config(default_model)
           /\ \A i \in 1..Len(call.lookups) : call.lookups[i] = default_model
           /\ ~Registered(default_model)
                 => call.result = NotFound(default_model)

\* task_routing has entries, none for the message's task type, and the
\* default model's configuration has been returned.
C10_Witness ==
    /\ Selected /\ ~OverrideGiven /\ AutoSwitchOn
    /\ DOMAIN task_routing # {}
    /\ RoutedType \notin DOMAIN task_routing
    /\ ~call.result.raised
    /\ call.result = get_model_config(default_model)

----------------------------------------------------------------------------
(* Properties of _get_model_config, checked under SpecRegistry *)

LookedUp == call.op = "_get_model_config"

\* the catalog of the p-th registered provider
CatalogOf(p) == DictGet(providers[p].value, "models", <<>>)

\* the registered providers whose catalog has model_id as a key
HoldersOfKey(model_id) ==
    {p \in 1..Len(providers) : model_id \in ItemKeys(CatalogOf(p))}

\* what a lookup that finds item in the catalog of the p-th provider returns
ConfigFrom(p, item) ==
    Return(Spread([provider |-> providers[p].key,
                   provider_config |-> providers[p].value], item.value))

\* C11 as stated: a key held by the catalogs of two providers resolves to
\* the provider registered first in the configuration.
C11_FirstRegisteredWins ==
    (LookedUp /\ Cardinality(HoldersOfKey(call.model_id)) = 2)
        => LET first == CHOOSE p \in HoldersOfKey(call.model_id) :
                            \A q \in HoldersOfKey(call.model_id) : p <= q
           IN  /\ ~call.result.raised
               /\ call.result.value.provider = providers[first].key

\* C11 as amended: a key held by the catalogs of both providers resolves to
\* moonshot's entry, whichever provider the configuration registers first.
C11_MoonshotWins ==
    (LookedUp /\ Cardinality(HoldersOfKey(call.model_id)) = 2)
        => \E p \in HoldersOfKey(call.model_id) :
              /\ providers[p].key = "moonshot"
              /\ call.result = ConfigFrom(p, [value |->
                                   ItemAt(CatalogOf(p), call.model_id)])

\* openrouter is registered first, both catalogs hold the key, and the
\* lookup has returned moonshot's entry.
C11_Witness ==
    /\ LookedUp
    /\ Cardinality(HoldersOfKey(call.model_id)) = 2
    /\ providers[1].key = "openrouter"
    /\ ~call.result.raised
    /\ call.result.value.provider = "moonshot"
    /\ call.result.value.id = "moonshot-shared"

\* C12: for every configured provider and every model of its catalog, the
\* lookup succeeds with the catalog key and with the model's id, and gives
\* the configuration of a catalog entry carrying that key or that id.
C12_KeyAndIdResolve ==
    LookedUp =>
        \A p \in 1..Len(providers) : \A i \in 1..Len(CatalogOf(p)) :
            LET item == CatalogOf(p)[i]
                named == \/ item.key = call.model_id
                         \/ /\ "id" \in DOMAIN item.value
                            /\ item.value.id = call.model_id
            IN  named =>
                  /\ ~call.result.raised
                  /\ \E q \in 1..Len(providers) :
                       \E j \in 1..Len(CatalogOf(q)) :
                          call.result = ConfigFrom(q, CatalogOf(q)[j])

----------------------------------------------------------------------------
(* Properties of chat_completion, checked under SpecChat and SpecMock *)

\* the generator has an answer to its request
Answer(chat) == chat.response[1]

StreamingAnswered(chat) ==
    chat.args # None /\ chat.args[1].stream /\ chat.response # None

PlainAnswered(chat) ==
    chat.args # None /\ ~chat.args[1].stream /\ chat.response # None

\* the line starts with the six characters d a t a : space
IsData(line) ==
    /\ Len(line) >= 6
    /\ line[1] = "d" /\ line[2] = "a" /\ line[3] = "t" /\ line[4] = "a"
    /\ line[5] = ":" /\ line[6] = " "

\* the line without its first six characters
PayloadOf(line) == [i \in 1..(Len(line) - 6) |-> line[i + 6]]

IsDone(line) == IsData(line) /\ PayloadOf(line) = DoneText

\* the position of the first "[DONE]" frame, past the end when there is none
FirstDone(lines) ==
    LET dones == {i \in 1..Len(lines) : IsDone(lines[i])}
    IN  IF dones = {} THEN Len(lines) + 1
        ELSE CHOOSE i \in dones : \A j \in dones : i <= j

\* the number of "data: " frames among the first n lines
DataFrames(lines, n) == Cardinality({i \in 1..n : IsData(lines[i])})

ByTransport(chat) ==
    chat.error # None /\ chat.error[1].error = TransportError

\* C13: the first "[DONE]" frame of a stream ends the sequence normally; it
\* gives no fragment, no line after it is read and no fragment comes from a
\* frame after it.
C13_DoneEndsTheStream ==
    \A c \in DOMAIN chats :
        LET chat == chats[c] IN
        StreamingAnswered(chat) =>
            LET lines == Answer(chat).lines
                d == FirstDone(lines)
            IN  d <= Len(lines) =>
                  /\ chat.pos <= d
                  /\ Len(chat.fragments) <= DataFrames(lines, d - 1)
                  /\ chat.pos = d =>
                        /\ chat.pc = "done"
                        /\ chat.outcome = "completed"
                        /\ chat.error = None
                        /\ Len(chat.fragments) = DataFrames(lines, d - 1)

\* A stream with a content frame, then "[DONE]", then another content frame
\* has been read up to "[DONE]" and has ended with one fragment.
C13_Witness ==
    \E c \in DOMAIN chats :
        /\ StreamingAnswered(chats[c])
        /\ Len(Answer(chats[c]).lines) = 3
        /\ FirstDone(Answer(chats[c]).lines) = 2
        /\ IsData(Answer(chats[c]).lines[1])
        /\ Answer(chats[c]).lines[3] = DataPrefix \o ChunkText(Quoted(Lo))
        /\ chats[c].pos = 2
        /\ chats[c].outcome = "completed"
        /\ Len(chats[c].fragments) = 1

\* payloads that are not JSON or have no delta content
NoContentPayloads == {GarbageText, EmptyDeltaText}

\* C14: a "data: " frame whose payload cannot be parsed or has no delta
\* content gives the empty fragment and neither fails nor ends the stream:
\* the frames read after it give their content.
C14_BadFrameGivesEmptyFragment ==
    \A c \in DOMAIN chats :
        LET chat == chats[c] IN
        StreamingAnswered(chat) =>
            LET lines == Answer(chat).lines IN
            /\ (chat.outcome = "raised" => ByTransport(chat))
            /\ \A i \in 1..chat.pos :
                 (IsData(lines[i]) /\ i < FirstDone(lines)) =>
                    LET k == DataFrames(lines, i) IN
                    /\ Len(chat.fragments) >= k
                    /\ PayloadOf(lines[i]) \in NoContentPayloads
                          => chat.fragments[k] = PyStr(<<>>)
                    /\ \A text \in {Hel, Lo} :
                          PayloadOf(lines[i]) = ChunkText(Quoted(text))
                             => chat.fragments[k] = PyStr(text)

\* After a frame that is not JSON the next frame has given its content.
C14_Witness ==
    \E c \in DOMAIN chats :
        /\ StreamingAnswered(chats[c])
        /\ chats[c].pos >= 2
        /\ Answer(chats[c]).lines[1] = DataPrefix \o GarbageText
        /\ Answer(chats[c]).lines[2] = DataPrefix \o ChunkText(Quoted(Hel))
        /\ chats[c].fragments = <<PyStr(<<>>), PyStr(Hel)>>
        /\ chats[c].outcome = "running"

\* the concatenation of the fragments
RECURSIVE Joined(_)
Joined(fragments) ==
    IF fragments = <<>> THEN <<>>
    ELSE fragments[1].v \o Joined(Tail(fragments))

\* C15: for the same prompt and model against the deterministic provider,
\* the fragments of a streamed call and of a plain call concatenate to the
\* same text.
C15_StreamEqualsPlain ==
    (/\ chats[1].outcome = "completed" /\ chats[2].outcome = "completed"
     /\ chats[1].response # None /\ chats[2].response # None
     /\ chats[1].args[1].message = chats[2].args[1].message
     /\ chats[1].args[1].model = chats[2].args[1].model
     /\ chats[1].args[1].stream /\ ~chats[2].args[1].stream)
        => Joined(chats[1].fragments) = Joined(chats[2].fragments)

\* A streamed call of several fragments and a plain call of one, same prompt
\* and model, have both completed with the text "Hello".
C15_Witness ==
    /\ chats[1].outcome = "completed" /\ chats[2].outcome = "completed"
    /\ chats[1].response # None /\ chats[2].response # None
    /\ chats[1].args[1].message = chats[2].args[1].message
    /\ chats[1].args[1].model = chats[2].args[1].model
    /\ chats[1].args[1].stream /\ ~chats[2].args[1].stream
    /\ Len(chats[1].fragments) > 1 /\ Len(chats[2].fragments) = 1
    /\ Joined(chats[1].fragments) = Hello

\* C16: a plain call whose body is a completion yields one fragment, the
\* message content of the first choice; a body that is not JSON or has no
\* such field makes the call fail without a fragment.
C16_PlainYieldsOneOrFails ==
    \A c \in DOMAIN chats :
        LET chat == chats[c] IN
        PlainAnswered(chat) =>
            /\ (Answer(chat).status = 200
                  /\ Answer(chat).body = BodyText(Quoted(Hello)))
                  => /\ chat.outcome # "raised"
                     /\ chat.fragments = <<PyStr(Hello)>>
            /\ Answer(chat).body \in {GarbageText, ErrorText, NoChoicesText}
                  => /\ chat.outcome = "raised"
                     /\ chat.error # None
                     /\ chat.error[1].error \in
                            {"JSONDecodeError", "KeyError", "IndexError"}
                     /\ chat.fragments = <<>>
            /\ Len(chat.fragments) <= 1

\* A plain call whose body is not JSON has failed without a fragment.
C16_Witness ==
    \E c \in DOMAIN chats :
        /\ PlainAnswered(chats[c])
        /\ Answer(chats[c]).body = GarbageText
        /\ chats[c].outcome = "raised"
        /\ chats[c].error[1].error = "JSONDecodeError"
        /\ chats[c].fragments = <<>>

\* C17: a call sends at most one request, none before selection and key
\* lookup have succeeded and exactly one once it is past its request; a
\* failed request is not sent again, goes to the model that was selected
\* and ends the call with the failure.
C17_OneRequestNoRetry ==
    \A c \in DOMAIN chats :
        LET chat == chats[c] IN
        /\ Len(chat.requests) <= 1
        /\ chat.pending = None => chat.requests = <<>>
        /\ (chat.pending # None /\ chat.pc # "request")
              => Len(chat.requests) = 1
        /\ ByTransport(chat)
              => /\ chat.pc = "done" /\ chat.outcome = "raised"
                 /\ Len(chat.requests) = 1
                 /\ chat.requests[1].json.model = chat.selected[1].value.id

\* The request for the primary model of the task has failed in the
\* transport, once, although the task has a fallback model.
C17_Witness ==
    \E c \in DOMAIN chats :
        /\ ByTransport(chats[c])
        /\ chats[c].response = None
        /\ Len(chats[c].requests) = 1
        /\ chats[c].args[1].model = None
        /\ detect_task_type(chats[c].args[1].message) \in DOMAIN task_routing
        /\ chats[c].requests[1].json.model = "moonshot-v1-k2.5"

\* the variable that holds the key of the provider the selection resolved to
KeyVariable(chat) ==
    ItemAt(providers, chat.selected[1].value.provider).api_key_env

KeyAbsent(chat) ==
    KeyVariable(chat) \notin DOMAIN environ \/ environ[KeyVariable(chat)] = ""

\* C18: when the variable of the resolved provider's key is unset or empty
\* the call fails with the missing-key error for that variable, without a
\* request and without a fragment; a request carries that variable's value.
C18_MissingKeyStopsTheCall ==
    \A c \in DOMAIN chats :
        LET chat == chats[c] IN
        (chat.selected # None /\ ~chat.selected[1].raised) =>
            /\ KeyAbsent(chat)
                  => /\ chat.pc = "done" /\ chat.outcome = "raised"
                     /\ chat.error = Some(Raise(MissingApiKey,
                                                KeyVariable(chat)))
                     /\ chat.requests = <<>> /\ chat.pending = None
                     /\ chat.fragments = <<>>
            /\ chat.pending # None
                  => chat.pending[1].headers.Authorization
                        = <<"Bearer", environ[KeyVariable(chat)]>>

\* The key of openrouter is set to the empty str and a call resolved to
\* openrouter has failed with the missing-key error.
C18_Witness ==
    \E c \in DOMAIN chats :
        /\ chats[c].selected # None /\ ~chats[c].selected[1].raised
        /\ chats[c].selected[1].value.provider = "openrouter"
        /\ "OPENROUTER_API_KEY" \in DOMAIN environ
        /\ environ["OPENROUTER_API_KEY"] = ""
        /\ chats[c].outcome = "raised"
        /\ chats[c].error[1].error = MissingApiKey
        /\ chats[c].requests = <<>>

\* C19: when the provider answers with a status outside 2xx the call fails
\* with a transport error and yields no fragment, streaming or not.
C19_ErrorStatusFails ==
    \A c \in DOMAIN chats :
        LET chat == chats[c] IN
        (chat.response # None /\ Answer(chat).status \notin 200..299)
            => /\ chat.fragments = <<>>
               /\ chat.pc = "done" /\ chat.outcome = "raised"
               /\ ByTransport(chat)

\* C20: no step of a chat_completion or select_model call changes the
\* provider registry, the task routing, the default model or the
\* auto-switch flag.
C20_ConfigurationNeverWritten ==
    [][UNCHANGED <<default_model, providers, task_routing, auto_switch>>]_vars

\* A call has completed with fragments and the configuration is the one the
\* router was constructed with.
C20_Witness ==
    /\ \E c \in DOMAIN chats :
          /\ chats[c].outcome = "completed"
          /\ chats[c].fragments # <<>>
    /\ Constructed([BaseConfig EXCEPT !.default_model = default_model])
    /\ default_model = BaseConfig.default_model

----------------------------------------------------------------------------
(* Two concurrent calls *)

\* A routing whose primary model for coding is not registered, so that the
\* two messages of ChatInputs select models of different providers.
FallbackConfig ==
    [BaseConfig EXCEPT
        !.task_routing = [t \in {"coding"} |->
                             [primary |-> "ghost", fallback |-> "gpt-4o"]]]

PairInputs ==
    [message : {Text(<<"h","i">>), Text(<<"f","i","x"," ","b","u","g","?">>)},
     model : {None},
     stream : BOOLEAN]

\* What the providers answer to the two calls: streams of different chunks,
\* with and without the end marker, and bodies.
PairReplies(stream) ==
    IF stream
    THEN {[status |-> 200, lines |-> ls] :
            ls \in {MockLines,
                    <<DataLine(ChunkText(Quoted(Lo))), DataLine(GarbageText),
                      DataLine(ChunkText(Quoted(Hel)))>>}}
    ELSE {[status |-> 200, body |-> b] :
            b \in {BodyText(Quoted(Hello)), GarbageText}}

InitPair ==
    /\ Constructed(FallbackConfig)
    /\ environ = FullEnviron
    /\ chats = <<NewChat, NewChat>>

BeginPair == \E c \in DOMAIN chats : ChatBegin(c, PairInputs)

RequestPair ==
    \E c \in DOMAIN chats : ChatRequest(c, PairReplies(Streamed(chats[c])))

NextPair ==
    \/ BeginPair \/ RequestPair \/ RequestFails \/ Line \/ End
    \/ StreamFails \/ Drop

\* Two generators whose steps interleave at every await.
SpecPair == InitPair /\ [][NextPair]_vars

----------------------------------------------------------------------------
(* Properties of concurrent calls, checked under SpecPair *)

\* the fragments a stream of these lines gives to a call that runs alone,
\* once it has read n of them
RECURSIVE AloneFragments(_, _)
AloneFragments(lines, n) ==
    IF n = 0 THEN <<>>
    ELSE IF IsData(lines[n]) /\ n < FirstDone(lines)
    THEN Append(AloneFragments(lines, n - 1),
                extract_content(PayloadOf(lines[n])).value)
    ELSE AloneFragments(lines, n - 1)

\* the fragments the body gives to a call that runs alone
AloneBodyFragments(body) ==
    IF body = BodyText(Quoted(Hello)) THEN <<PyStr(Hello)>> ELSE <<>>

\* the selection and the fragments of the call are those of the call alone
AsAlone(chat) ==
    chat.args # None =>
        /\ chat.selected =
              Some(select_model(chat.args[1].message,
                                chat.args[1].model).result)
        /\ chat.response = None => chat.fragments = <<>>
        /\ StreamingAnswered(chat) =>
              chat.fragments = AloneFragments(Answer(chat).lines, chat.pos)
        /\ PlainAnswered(chat) =>
              chat.fragments = AloneBodyFragments(Answer(chat).body)

\* C21: under every interleaving of the steps of two calls, each call has
\* the selection and the fragments it has when it runs alone; no fragment
\* of one call is in the sequence of the other.
C21_ConcurrentCallsIndependent ==
    \A c \in DOMAIN chats : AsAlone(chats[c])

\* Both calls are in the middle of their streams, which differ, and each
\* has the fragments of its own stream so far.
C21_Witness ==
    /\ StreamingAnswered(chats[1]) /\ StreamingAnswered(chats[2])
    /\ chats[1].pc = "stream" /\ chats[2].pc = "stream"
    /\ chats[1].pos = 2 /\ chats[2].pos = 1
    /\ chats[1].fragments = <<PyStr(Hel), PyStr(Lo)>>
    /\ chats[2].fragments = <<PyStr(Lo)>>
    /\ chats[1].selected # chats[2].selected

----------------------------------------------------------------------------
(* The lines of a stream *)

\* The lines of an event stream: a blank line, a comment, an event line,
\* "data:" without the space, a line shorter than the marker, a chunk and
\* the end marker.
FramePool ==
    { <<>>,
      <<":"," ","p","i","n","g">>,
      <<"e","v","e","n","t",":"," ","m">>,
      <<"d","a","t","a",":">> \o ChunkText(Quoted(Lo)),
      <<"d","a","t","a">>,
      DataLine(ChunkText(Quoted(Hel))),
      DataLine(DoneText) }

FrameInputs ==
    [message : {Text(<<"h","i">>)}, model : {None, Some("gpt-4o")},
     stream : {TRUE}]

FrameReplies ==
    {[status |-> 200, lines |-> ls] : ls \in SeqsUpTo(FramePool, MaxLines)}

InitFrames ==
    /\ Constructed(BaseConfig)
    /\ environ = FullEnviron
    /\ chats = <<NewChat>>

BeginFrames == \E c \in DOMAIN chats : ChatBegin(c, FrameInputs)

RequestFrames == \E c \in DOMAIN chats : ChatRequest(c, FrameReplies)

NextFrames == BeginFrames \/ RequestFrames \/ Line \/ End \/ Drop

\* One streaming call over every stream of these lines.
SpecFrames == InitFrames /\ [][NextFrames]_vars

----------------------------------------------------------------------------
(* Properties of the lines of a stream, checked under SpecFrames *)

\* generator c reads the next line of its stream in this step
ReadsLine(c) ==
    /\ chats[c].pc = "stream"
    /\ chats'[c].response = chats[c].response
    /\ chats'[c].pos = chats[c].pos + 1

LineRead(c) == Answer(chats[c]).lines[chats'[c].pos]

\* C22: a line that does not start with "data: " gives no fragment and does
\* not end the sequence; a line that does, other than the end marker, gives
\* the fragment of the line without its first six characters.
C22_OnlyDataLinesGiveFragments ==
    [][\A c \in DOMAIN chats :
          ReadsLine(c) =>
             /\ ~IsData(LineRead(c)) =>
                   /\ chats'[c].fragments = chats[c].fragments
                   /\ chats'[c].pc = "stream"
                   /\ chats'[c].outcome = chats[c].outcome
             /\ (IsData(LineRead(c)) /\ ~IsDone(LineRead(c))) =>
                   /\ chats'[c].fragments =
                         Append(chats[c].fragments,
                                extract_content(PayloadOf(LineRead(c))).value)
                   /\ PayloadOf(LineRead(c)) = ChunkText(Quoted(Hel))
                         => chats'[c].fragments[Len(chats'[c].fragments)]
                               = PyStr(Hel)]_vars

\* A blank line, "data:" without the space and a chunk have been read; the
\* chunk alone gave a fragment and the sequence goes on.
C22_Witness ==
    /\ StreamingAnswered(chats[1])
    /\ chats[1].pos = 3 /\ chats[1].pc = "stream"
    /\ Answer(chats[1]).lines[1] = <<>>
    /\ Answer(chats[1]).lines[2]
          = <<"d","a","t","a",":">> \o ChunkText(Quoted(Lo))
    /\ Answer(chats[1]).lines[3] = DataLine(ChunkText(Quoted(Hel)))
    /\ chats[1].fragments = <<PyStr(Hel)>>

----------------------------------------------------------------------------
(* Properties of the selection of a call, checked under SpecPair *)

\* the call of generator c is under way or over, before and after the step
SameCall(c) == chats[c].pc # "idle" /\ chats'[c].pc # "idle"

\* every request of the call is for the model select_model returned
RequestsUseSelection(chat) ==
    chat.requests # <<>> =>
        /\ chat.selected # None /\ ~chat.selected[1].raised
        /\ chat.selected[1] =
              select_model(chat.args[1].message, chat.args[1].model).result
        /\ chat.lookups =
              select_model(chat.args[1].message, chat.args[1].model).lookups
        /\ \A i \in 1..Len(chat.requests) :
              chat.requests[i].json.model = chat.selected[1].value.id

\* C23: the model of a call, substitution of the fallback included, is
\* fixed by select_model before the request is sent; no step of the call
\* at or after the request changes the selection, the identifiers looked
\* up or the request, and every request is for the selected model.
C23_SelectionBeforeRequest ==
    /\ [](\A c \in DOMAIN chats : RequestsUseSelection(chats[c]))
    /\ [][\A c \in DOMAIN chats :
             SameCall(c) =>
                /\ chats'[c].selected = chats[c].selected
                /\ chats'[c].lookups = chats[c].lookups
                /\ chats'[c].pending = chats[c].pending]_vars

\* A call whose primary model is not registered has looked up the primary
\* and then the fallback before its one request, which failed.
C23_Witness ==
    \E c \in DOMAIN chats :
        /\ chats[c].lookups = <<"ghost", "gpt-4o">>
        /\ Len(chats[c].requests) = 1
        /\ chats[c].requests[1].json.model = "openai/gpt-4o"
        /\ ByTransport(chats[c])

----------------------------------------------------------------------------
(* Properties of the override of select_model, checked under Spec *)

\* the caller supplied an override, whatever its value
OverrideSupplied == call.preferred_model # None

\* the entries of the catalogs that have model_id as key or as id
EntriesOf(model_id) ==
    {<<q, i>> \in (1..Len(providers)) \X (1..MaxCatalog) :
        /\ i <= Len(CatalogOf(q))
        /\ \/ CatalogOf(q)[i].key = model_id
           \/ /\ "id" \in DOMAIN CatalogOf(q)[i].value
              /\ CatalogOf(q)[i].value.id = model_id}

\* C24: with a registered override select_model returns the configuration
\* of that model and looks up nothing else, whatever the message, the task
\* routing and the auto_switch flag.
C24_RegisteredOverrideWins ==
    (Selected /\ OverrideSupplied /\ Registered(call.preferred_model[1]))
        => /\ call.lookups = <<call.preferred_model[1]>>
           /\ \E e \in EntriesOf(call.preferred_model[1]) :
                 call.result = ConfigFrom(e[1], CatalogOf(e[1])[e[2]])

\* C30: an override that is the empty str is looked up in the registry, and
\* nothing else is: the call has the result of that lookup.
C30_EmptyOverrideIsLookedUp ==
    (Selected /\ call.preferred_model = Some(""))
        => /\ call.lookups = <<"">>
           /\ call.result = get_model_config("")

\* C6 for every override the caller supplies, the empty str included: an
\* override that no catalog registers fails with model-not-found for it.
C6_SuppliedOverrideFails ==
    (Selected /\ OverrideSupplied /\ ~Registered(call.preferred_model[1]))
        => /\ call.result = NotFound(call.preferred_model[1])
           /\ call.lookups = <<call.preferred_model[1]>>

----------------------------------------------------------------------------
(* Properties of the order of the fragments, checked under SpecChat *)

\* the lines of the stream that have been read and come before "[DONE]"
FramesRead(chat) ==
    {i \in 1..chat.pos :
        IsData(Answer(chat).lines[i]) /\ i < FirstDone(Answer(chat).lines)}

\* the content of the chunks of the pool
ContentOf(payload) ==
    IF payload = ChunkText(Quoted(Hel)) THEN PyStr(Hel)
    ELSE IF payload = ChunkText(Quoted(Lo)) THEN PyStr(Lo)
    ELSE extract_content(payload).value

\* C25: a streaming call has one fragment for each "data: " line read
\* before the first "[DONE]", in the order of the lines: the k-th fragment
\* is the content of the k-th such line.
C25_FragmentsInArrivalOrder ==
    \A c \in DOMAIN chats :
        LET chat == chats[c] IN
        StreamingAnswered(chat) =>
            /\ Len(chat.fragments) = Cardinality(FramesRead(chat))
            /\ \A i \in FramesRead(chat) :
                  chat.fragments[DataFrames(Answer(chat).lines, i)]
                     = ContentOf(PayloadOf(Answer(chat).lines[i]))

\* The chunks "lo" and "Hel" were read in that order around a line without
\* the marker, and the two fragments are in that order.
C25_Witness ==
    \E c \in DOMAIN chats :
        /\ StreamingAnswered(chats[c])
        /\ chats[c].pos = 3
        /\ Answer(chats[c]).lines =
              <<DataLine(ChunkText(Quoted(Lo))), ErrorText,
                DataLine(ChunkText(Quoted(Hel)))>>
        /\ chats[c].fragments = <<PyStr(Lo), PyStr(Hel)>>

----------------------------------------------------------------------------
(* Properties of the type of the fragments, checked under SpecChat *)

\* C27: every fragment of a streaming call is a str, whatever the payloads
\* of its "data: " lines hold, and no payload makes the call raise.
C27_FragmentsAreStrings ==
    \A c \in DOMAIN chats :
        StreamingAnswered(chats[c]) =>
            /\ \A k \in 1..Len(chats[c].fragments) :
                  chats[c].fragments[k].t = "str"
            /\ chats[c].outcome = "raised" => ByTransport(chats[c])

----------------------------------------------------------------------------
(* Catalog entries with fields of their own *)

\* A registry whose moonshot catalog has an entry that names openrouter as
\* its provider and one that names a provider without a transport, and
\* whose openrouter catalog has an entry with a provider_config of its own.
SpreadConfig ==
    [BaseConfig EXCEPT
        !.providers =
            << [key |-> "moonshot",
                value |-> [ProviderItem("moonshot", 1).value EXCEPT
                    !.models = @ \o
                        << [key |-> "relay",
                            value |-> [id |-> "relay-1",
                                       provider |-> "openrouter"]],
                           [key |-> "claude",
                            value |-> [id |-> "claude-3",
                                       provider |-> "anthropic"]] >>]],
               [key |-> "openrouter",
                value |-> [ProviderItem("openrouter", 1).value EXCEPT
                    !.models = @ \o
                        << [key |-> "mirror",
                            value |-> [id |-> "mirror-1",
                                       provider_config |->
                                          [base_url |-> "https://mirror.example/v1"]]] >>]] >>]

SpreadInputs ==
    [message : {Text(<<"h","i">>), Text(<<"f","i","x"," ","b","u","g","?">>)},
     model : {None, Some("relay"), Some("claude"), Some("mirror"),
              Some("gpt-4o")},
     stream : BOOLEAN]

InitSpread ==
    /\ Constructed(SpreadConfig)
    /\ environ = FullEnviron
    /\ chats = <<NewChat>>

BeginSpread == \E c \in DOMAIN chats : ChatBegin(c, SpreadInputs)

NextSpread ==
    \/ BeginSpread \/ RequestPair \/ RequestFails \/ Line \/ End
    \/ StreamFails \/ Drop

SpecSpread == InitSpread /\ [][NextSpread]_vars

----------------------------------------------------------------------------
(* Properties of the provider of a configuration, checked under SpecSpread *)

\* the registered providers in whose catalog model_id is a key or an id
FoundIn(model_id) ==
    {q \in 1..Len(providers) :
        \E i \in 1..Len(CatalogOf(q)) :
            \/ CatalogOf(q)[i].key = model_id
            \/ /\ "id" \in DOMAIN CatalogOf(q)[i].value
               /\ CatalogOf(q)[i].value.id = model_id}

\* C28: the provider and provider_config of a configuration that
\* _get_model_config returned are those of a provider in whose catalog the
\* model is, and a call that completed has sent a request.
C28_ProviderOfTheCatalog ==
    \A c \in DOMAIN chats :
        LET chat == chats[c] IN
        (chat.selected # None /\ ~chat.selected[1].raised) =>
            /\ \E q \in FoundIn(chat.lookups[Len(chat.lookups)]) :
                  /\ chat.selected[1].value.provider = providers[q].key
                  /\ chat.selected[1].value.provider_config
                        = providers[q].value
            /\ chat.outcome = "completed" => chat.requests # <<>>

----------------------------------------------------------------------------
(* The ways a call ends *)

\* the generator has finished because its consumer gave it up
Cancelled(chat) ==
    [chat EXCEPT !.pc = "done", !.outcome = "cancelled",
                 !.connection = IF chat.connection = "none" THEN "none"
                                ELSE "closed"]

\* The task that iterates the generator is cancelled while the generator
\* awaits the response or a line: CancelledError is raised at the await and
\* leaves the `async with` blocks of the transport.
ChatCancel(c) ==
    /\ call = Idle
    /\ chats[c].pc \in {"request", "stream"}
    /\ chats' = [chats EXCEPT ![c] = Cancelled(chats[c])]
    /\ ChatFrame

\* the generator is suspended at the yield of a fragment
AtYield(chat) ==
    \/ chat.pc = "yielded"
    \/ /\ chat.pc = "stream"
       /\ chat.pos >= 1
       /\ stream_step(chat.response[1].lines[chat.pos]).do = "yield"

\* a transport generator that is never closed once its consumer is gone
ChatClose_abandoned(c) ==
    /\ call = Idle
    /\ AtYield(chats[c])
    /\ chats' = [chats EXCEPT ![c] =
                    [@ EXCEPT !.pc = "done", !.outcome = "cancelled"]]
    /\ ChatFrame

\* The consumer closes the generator of chat_completion, or lets go of it,
\* at a yield: chat_completion ends at its own yield, and the generator of
\* the transport, which the `async for` of chat_completion does not close,
\* is left to the finalizer of the event loop.
ChatClose(c) ==
    /\ call = Idle
    /\ AtYield(chats[c])
    /\ chats' = [chats EXCEPT ![c] =
                    [@ EXCEPT !.pc = "closing", !.outcome = "cancelled"]]
    /\ ChatFrame

\* The event loop closes the generator of the transport: GeneratorExit is
\* raised at its yield and leaves the `async with` blocks.
ChatFinalize(c) ==
    /\ call = Idle
    /\ chats[c].pc = "closing"
    /\ chats' = [chats EXCEPT ![c] = Cancelled(chats[c])]
    /\ ChatFrame

\* The lines of the streams: a chunk, the end marker and a line without the
\* marker.
EndPool == {DataLine(ChunkText(Quoted(Hel))), DataLine(DoneText), ErrorText}

EndReplies(stream) ==
    IF stream
    THEN {[status |-> 200, lines |-> ls] : ls \in SeqsUpTo(EndPool, MaxLines)}
    ELSE {[status |-> 200, body |-> b] :
            b \in {BodyText(Quoted(Hello)), GarbageText}}

EndInputs ==
    [message : {Text(<<"h","i">>)}, model : {None, Some("ghost")},
     stream : BOOLEAN]

InitEnds ==
    /\ Constructed(BaseConfig)
    /\ environ \in {FullEnviron, [v \in {"OPENROUTER_API_KEY"} |-> "sk-openrouter"]}
    /\ chats = <<NewChat>>

BeginEnds == \E c \in DOMAIN chats : ChatBegin(c, EndInputs)

RequestEnds ==
    \E c \in DOMAIN chats : ChatRequest(c, EndReplies(Streamed(chats[c])))

Cancel == \E c \in DOMAIN chats : ChatCancel(c)

Close == \E c \in DOMAIN chats : ChatClose(c)

Finalize == \E c \in DOMAIN chats : ChatFinalize(c)

\* the steps that the provider, the request timeout, the iterating consumer
\* and the event loop take whenever a call waits for them
Proceeds ==
    RequestEnds \/ RequestFails \/ Line \/ End \/ StreamFails \/ Finalize

NextEnds == Proceeds \/ BeginEnds \/ Cancel \/ Close \/ Drop

\* One call at a time that ends in every way it can; a call that waits is
\* eventually served.
SpecEnds == InitEnds /\ [][NextEnds]_vars /\ WF_vars(Proceeds)

----------------------------------------------------------------------------
(* Properties of the end of a call, checked under SpecEnds *)

Running(chat) == chat.pc \in {"request", "stream", "yielded", "closing"}

\* the call ended normally at the first "[DONE]" or at the end of a stream
\* without one
EndedAtDoneOrEnd(chat) ==
    (chat.pc = "done" /\ chat.outcome = "completed"
        /\ StreamingAnswered(chat)) =>
        /\ chat.error = None
        /\ \/ chat.pos = FirstDone(Answer(chat).lines)
           \/ /\ FirstDone(Answer(chat).lines) > Len(Answer(chat).lines)
              /\ chat.pos = Len(Answer(chat).lines)

\* C26: a call that has ended has no open connection, whether it ended at
\* "[DONE]", at the end of the stream, by an error or by its consumer; a
\* call its consumer gave up yields nothing more and its connection is
\* closed in the end.
C26_ConnectionReleased ==
    /\ [](chats[1].pc \in {"done", "idle"} => chats[1].connection # "open")
    /\ []((chats[1].pc = "done" /\ chats[1].requests # <<>>)
             => chats[1].connection = "closed")
    /\ [][(chats[1].outcome = "cancelled" /\ chats'[1].pc # "idle")
             => /\ chats'[1].fragments = chats[1].fragments
                /\ chats'[1].outcome = "cancelled"]_vars
    /\ (chats[1].pc = "closing") ~> (chats[1].connection = "closed")

\* The consumer closed the call after the first of two chunks: the call
\* has ended with that one fragment and its connection is closed.
C26_Witness ==
    /\ StreamingAnswered(chats[1])
    /\ chats[1].pc = "done" /\ chats[1].outcome = "cancelled"
    /\ chats[1].pos = 1 /\ Len(Answer(chats[1]).lines) >= 2
    /\ IsData(Answer(chats[1]).lines[2]) /\ ~IsDone(Answer(chats[1]).lines[2])
    /\ chats[1].fragments = <<PyStr(Hel)>>
    /\ chats[1].connection = "closed"

\* C29: every call ends; a streaming call that ends normally does so at
\* the first "[DONE]" or at the end of a stream without one; a call that
\* has ended yields nothing more.
C29_EveryCallEnds ==
    /\ Running(chats[1]) ~> (chats[1].pc = "done")
    /\ []EndedAtDoneOrEnd(chats[1])
    /\ [][(chats[1].pc = "done" /\ chats'[1].pc # "idle")
             => /\ chats'[1].pc = "done"
                /\ chats'[1].fragments = chats[1].fragments]_vars

\* A stream of two chunks without "[DONE]" has been read to its end and
\* the call has completed without error.
C29_Witness ==
    /\ StreamingAnswered(chats[1])
    /\ Len(Answer(chats[1]).lines) = 2
    /\ FirstDone(Answer(chats[1]).lines) = 3
    /\ chats[1].pos = 2
    /\ chats[1].pc = "done" /\ chats[1].outcome = "completed"
    /\ chats[1].error = None
    /\ Len(chats[1].fragments) = 2

====
